---- MODULE Spec2Model ----
(***************************************************************************)
(* Model of the questionnaire application: the assessment service          *)
(* (services.AssessmentService), its scoring and report generation, and    *)
(* the file storage it reads and writes.                                   *)
(***************************************************************************)
EXTENDS Integers, Sequences, FiniteSets, TLC

VARIABLES
    argQuestions,   \* generateReport's questions argument (scoring harness)
    argAssessment,  \* generateReport's assessment argument (scoring harness)
    result,         \* the report generateReport returned, or NoRecord
    lastOp,         \* the harness step that produced the current result
    prevResult,     \* the report of the previous harness step, or NoRecord
    catalog,        \* storage: the question catalog (questions/*.json)
    applications,   \* storage: identifiers of the stored applications
    assessments,    \* storage: assessment identifier -> record, or NoRecord
    reports,        \* storage: assessment identifier -> report, or NoRecord
    requests,       \* the request each server goroutine is handling
    calls           \* number of requests accepted so far

scoreVars == <<argQuestions, argAssessment, result, lastOp, prevResult>>

storageVars == <<catalog, applications, assessments, reports>>

serviceVars == <<catalog, applications, assessments, reports, requests, calls>>

vars == <<argQuestions, argAssessment, result, lastOp, prevResult,
          catalog, applications, assessments, reports, requests, calls>>

----------------------------------------------------------------------------
(* Bounds and universes of the model *)

MaxWeight == 2
MaxPoints == 1
MaxRaise == 2
MaxTime == 0
MaxCalls == 4

Categories == {"Architecture", "Persistence", "Configuration"}
QuestionIDs == <<"q1", "q2">>
OptionIDs == <<"a1", "a2">>
Times == 0..MaxTime
AssessmentIDs == {"a1", "a2"}
ApplicationIDs == {"app1", "app2"}
Procs == {1, 2}

\* identifiers no catalog contains
StaleQuestionID == "q0"
UnknownOptionID == "a0"

NoRecord == [none |-> TRUE]
EmptyMap == [k \in {} |-> 0]

----------------------------------------------------------------------------
(* Data model: models.Question, models.Option, models.Assessment and the   *)
(* report's entries                                                        *)

Option(id, points) == [ID |-> id, Points |-> points]

Question(id, category, weight, options) ==
    [ID |-> id, Category |-> category, Weight |-> weight, Options |-> options]

Assessment(id, app, createdAt, answers, status) ==
    [ID |-> id, ApplicationID |-> app, CreatedAt |-> createdAt,
     Answers |-> answers, Status |-> status]

Recommendation(category, description, priority) ==
    [Category |-> category, Description |-> description, Priority |-> priority]

Risk(category, description, severity) ==
    [Category |-> category, Description |-> description, Severity |-> severity]

ModernizationStep(order, description, effort) ==
    [Order |-> order, Description |-> description, Effort |-> effort]

----------------------------------------------------------------------------
(* Go arithmetic used by the report generator *)

\* float64(num)/float64(den) < n/d for the literals 0.5, 0.6 and 0.7.  A zero
\* denominator gives NaN (0/0), +Inf or -Inf: only -Inf compares less.
RatioLess(num, den, n, d) ==
    IF den = 0 THEN num < 0
    ELSE IF den > 0 THEN num * d < n * den
    ELSE num * d > n * den

\* MapAdd with the entry overwritten instead of added to
MapSet(m, k, v) ==
    IF k \in DOMAIN m THEN [m EXCEPT ![k] = v] ELSE (k :> v) @@ m

\* m[k] += v on a Go map: a missing key reads as zero
MapAdd(m, k, v) ==
    IF k \in DOMAIN m THEN [m EXCEPT ![k] = @ + v] ELSE (k :> v) @@ m

\* every order in which a range over a Go map can visit the keys
RECURSIVE MapOrders(_)
MapOrders(S) ==
    IF S = {} THEN {<<>>}
    ELSE UNION {{<<k>> \o rest : rest \in MapOrders(S \ {k})} : k \in S}

----------------------------------------------------------------------------
(* Scoring and report generation *)

RECURSIVE maxOptionPointsFrom(_, _, _)
maxOptionPointsFrom(options, i, max) ==
    IF i > Len(options) THEN max
    ELSE maxOptionPointsFrom(options, i + 1,
            IF options[i].Points > max THEN options[i].Points ELSE max)

maxOptionPoints(options) == maxOptionPointsFrom(options, 1, 0)

\* selectedOption falling back to the first option when none matches
RECURSIVE selectedOptionDefault(_, _, _)
selectedOptionDefault(options, optionID, i) ==
    IF i > Len(options) THEN (IF Len(options) > 0 THEN 1 ELSE 0)
    ELSE IF options[i].ID = optionID THEN i
    ELSE selectedOptionDefault(options, optionID, i + 1)

\* index of the first option whose ID is optionID, 0 when there is none
RECURSIVE selectedOption(_, _, _)
selectedOption(options, optionID, i) ==
    IF i > Len(options) THEN 0
    ELSE IF options[i].ID = optionID THEN i
    ELSE selectedOption(options, optionID, i + 1)

\* scoreQuestion adding to the maxima only for answered questions
scoreQuestionAnsweredMax(acc, question, answers) ==
    LET ceiling == question.Weight * maxOptionPoints(question.Options)
        answered == question.ID \in DOMAIN answers
        withMax == IF answered
                   THEN [acc EXCEPT
                           !.maxScore = @ + ceiling,
                           !.categoryMaxScores = MapAdd(@, question.Category, ceiling)]
                   ELSE acc
        sel == IF answered
               THEN selectedOption(question.Options, answers[question.ID], 1)
               ELSE 0
    IN IF sel = 0 THEN withMax
       ELSE LET score == question.Options[sel].Points * question.Weight
            IN [withMax EXCEPT
                  !.totalScore = @ + score,
                  !.categoryScores = MapAdd(@, question.Category, score)]

\* scoreQuestion scoring the distance of the selected option from the best one
scoreQuestionShortfall(acc, question, answers) ==
    LET ceiling == question.Weight * maxOptionPoints(question.Options)
        withMax == [acc EXCEPT
                      !.maxScore = @ + ceiling,
                      !.categoryMaxScores = MapAdd(@, question.Category, ceiling)]
        answered == question.ID \in DOMAIN answers
        sel == IF answered
               THEN selectedOption(question.Options, answers[question.ID], 1)
               ELSE 0
    IN IF sel = 0 THEN withMax
       ELSE LET score == (maxOptionPoints(question.Options)
                            - question.Options[sel].Points) * question.Weight
            IN [withMax EXCEPT
                  !.totalScore = @ + score,
                  !.categoryScores = MapAdd(@, question.Category, score)]

\* one iteration of the scoring loop of generateReport
scoreQuestion(acc, question, answers) ==
    LET ceiling == question.Weight * maxOptionPoints(question.Options)
        withMax == [acc EXCEPT
                      !.maxScore = @ + ceiling,
                      !.categoryMaxScores = MapAdd(@, question.Category, ceiling)]
        answered == question.ID \in DOMAIN answers
        sel == IF answered
               THEN selectedOption(question.Options, answers[question.ID], 1)
               ELSE 0
    IN IF sel = 0 THEN withMax
       ELSE LET score == question.Options[sel].Points * question.Weight
            IN [withMax EXCEPT
                  !.totalScore = @ + score,
                  !.categoryScores = MapAdd(@, question.Category, score)]

RECURSIVE calculateScores(_, _, _, _)
calculateScores(questions, answers, i, acc) ==
    IF i > Len(questions) THEN acc
    ELSE calculateScores(questions, answers, i + 1,
                         scoreQuestion(acc, questions[i], answers))

\* categoryAdvice with the Persistence rule at the Architecture threshold
categoryAdviceOneThreshold(out, category, score, categoryMaxScores) ==
    IF category \notin DOMAIN categoryMaxScores \/ categoryMaxScores[category] = 0
    THEN out
    ELSE LET max == categoryMaxScores[category]
         IN IF RatioLess(score, max, 1, 2) /\ category = "Architecture"
            THEN [Recommendations |-> Append(out.Recommendations,
                      Recommendation(category,
                          "Consider refactoring application architecture to be more containerization-friendly",
                          "High")),
                  Risks |-> Append(out.Risks,
                      Risk(category,
                          "Complex architecture may lead to challenges in containerization",
                          "High"))]
            ELSE IF RatioLess(score, max, 1, 2) /\ category = "Persistence"
            THEN [Recommendations |-> Append(out.Recommendations,
                      Recommendation(category,
                          "Review database access patterns for compatibility with Kubernetes",
                          "Medium")),
                  Risks |-> Append(out.Risks,
                      Risk(category,
                          "Data persistence implementation may cause issues in containerized environment",
                          "Medium"))]
            ELSE out

\* the recommendations and risks one category adds
categoryAdvice(out, category, score, categoryMaxScores) ==
    IF category \notin DOMAIN categoryMaxScores \/ categoryMaxScores[category] = 0
    THEN out
    ELSE LET max == categoryMaxScores[category]
         IN IF RatioLess(score, max, 1, 2) /\ category = "Architecture"
            THEN [Recommendations |-> Append(out.Recommendations,
                      Recommendation(category,
                          "Consider refactoring application architecture to be more containerization-friendly",
                          "High")),
                  Risks |-> Append(out.Risks,
                      Risk(category,
                          "Complex architecture may lead to challenges in containerization",
                          "High"))]
            ELSE IF RatioLess(score, max, 3, 5) /\ category = "Persistence"
            THEN [Recommendations |-> Append(out.Recommendations,
                      Recommendation(category,
                          "Review database access patterns for compatibility with Kubernetes",
                          "Medium")),
                  Risks |-> Append(out.Risks,
                      Risk(category,
                          "Data persistence implementation may cause issues in containerized environment",
                          "Medium"))]
            ELSE out

RECURSIVE categoryLoop(_, _, _, _, _)
categoryLoop(out, order, i, categoryScores, categoryMaxScores) ==
    IF i > Len(order) THEN out
    ELSE categoryLoop(
            categoryAdvice(out, order[i], categoryScores[order[i]], categoryMaxScores),
            order, i + 1, categoryScores, categoryMaxScores)

\* overallAdvice with the first tier reaching up to and including ratio 0.5
overallAdviceInclusive(totalScore, maxScore) ==
    IF RatioLess(totalScore, maxScore, 1, 2)
          \/ (maxScore # 0 /\ 2 * totalScore = maxScore)
    THEN [Recommendations |-> <<Recommendation("General",
              "Application requires significant modifications for Kubernetes deployment",
              "High")>>,
          Risks |-> <<Risk("Deployment",
              "Application architecture not suitable for containerization",
              "High")>>]
    ELSE IF RatioLess(totalScore, maxScore, 7, 10)
    THEN [Recommendations |-> <<Recommendation("General",
              "Application needs moderate changes to be suitable for Kubernetes",
              "Medium")>>,
          Risks |-> <<>>]
    ELSE [Recommendations |-> <<Recommendation("General",
              "Application is a good candidate for Kubernetes deployment",
              "Low")>>,
          Risks |-> <<>>]

\* the overall recommendation and risk
overallAdvice(totalScore, maxScore) ==
    IF RatioLess(totalScore, maxScore, 1, 2)
    THEN [Recommendations |-> <<Recommendation("General",
              "Application requires significant modifications for Kubernetes deployment",
              "High")>>,
          Risks |-> <<Risk("Deployment",
              "Application architecture not suitable for containerization",
              "High")>>]
    ELSE IF RatioLess(totalScore, maxScore, 7, 10)
    THEN [Recommendations |-> <<Recommendation("General",
              "Application needs moderate changes to be suitable for Kubernetes",
              "Medium")>>,
          Risks |-> <<>>]
    ELSE [Recommendations |-> <<Recommendation("General",
              "Application is a good candidate for Kubernetes deployment",
              "Low")>>,
          Risks |-> <<>>]

\* order is the order in which the range over categoryScores visits its keys
generateRecommendations(totalScore, maxScore, categoryScores, categoryMaxScores, order) ==
    categoryLoop(overallAdvice(totalScore, maxScore), order, 1,
                 categoryScores, categoryMaxScores)

tierSteps(totalScore, maxScore) ==
    IF RatioLess(totalScore, maxScore, 1, 2)
    THEN <<ModernizationStep(2, "Refactor application architecture for microservices", "High"),
           ModernizationStep(3, "Implement appropriate data persistence strategy", "High"),
           ModernizationStep(4, "Create containerization strategy with multiple containers", "Medium")>>
    ELSE IF RatioLess(totalScore, maxScore, 7, 10)
    THEN <<ModernizationStep(2, "Refactor specific components for containerization", "Medium"),
           ModernizationStep(3, "Adapt data persistence for cloud environment", "Medium")>>
    ELSE <<>>

\* finalSteps numbered as if the longest tier block always preceded them
finalStepsPreassigned(len) ==
    <<ModernizationStep(5, "Containerize application components", "Medium"),
      ModernizationStep(6, "Create Kubernetes deployment manifests", "Medium"),
      ModernizationStep(7, "Set up CI/CD pipeline for Kubernetes deployment", "Medium"),
      ModernizationStep(8, "Implement monitoring and observability", "Medium")>>

\* the final common steps, numbered after the len steps already in the plan
finalSteps(len) ==
    <<ModernizationStep(len + 1, "Containerize application components", "Medium"),
      ModernizationStep(len + 2, "Create Kubernetes deployment manifests", "Medium"),
      ModernizationStep(len + 3, "Set up CI/CD pipeline for Kubernetes deployment", "Medium"),
      ModernizationStep(len + 4, "Implement monitoring and observability", "Medium")>>

createModernizationPlan(totalScore, maxScore) ==
    LET plan == <<ModernizationStep(1,
                     "Analyze application dependencies and external integrations",
                     "Low")>>
                \o tierSteps(totalScore, maxScore)
    IN plan \o finalSteps(Len(plan))

initialScores ==
    [totalScore |-> 0, maxScore |-> 0,
     categoryScores |-> EmptyMap, categoryMaxScores |-> EmptyMap]

\* now is time.Now(); order is the iteration order of the category map
generateReport(assessment, questions, now, order) ==
    LET s == calculateScores(questions, assessment.Answers, 1, initialScores)
        advice == generateRecommendations(s.totalScore, s.maxScore,
                      s.categoryScores, s.categoryMaxScores, order)
    IN [AssessmentID |-> assessment.ID,
        ApplicationID |-> assessment.ApplicationID,
        GeneratedAt |-> now,
        TotalScore |-> s.totalScore,
        MaxPossibleScore |-> s.maxScore,
        CategoryScores |-> s.categoryScores,
        Recommendations |-> advice.Recommendations,
        Risks |-> advice.Risks,
        ModernizationPlan |-> createModernizationPlan(s.totalScore, s.maxScore)]

\* the category scores generateReport ranges over
categoryScoresOf(assessment, questions) ==
    calculateScores(questions, assessment.Answers, 1, initialScores).categoryScores

\* the per-category maxima, which the report does not carry
categoryMaxScoresOf(assessment, questions) ==
    calculateScores(questions, assessment.Answers, 1, initialScores).categoryMaxScores

----------------------------------------------------------------------------
(* Catalogs and answer maps the scoring harness draws its inputs from *)

RECURSIVE SeqsUpTo(_, _)
\* all sequences over S of length at most n
SeqsUpTo(S, n) ==
    IF n = 0 THEN {<<>>}
    ELSE LET shorter == SeqsUpTo(S, n - 1)
         IN shorter \cup {Append(s, x) : s \in shorter, x \in S}

\* option lists: the option at position j has identifier OptionIDs[j]
OptionLists ==
    {[j \in 1..Len(ps) |-> Option(OptionIDs[j], ps[j])] :
        ps \in SeqsUpTo(0..MaxPoints, Len(OptionIDs))}

QuestionShapes ==
    [Category : Categories, Weight : 1..MaxWeight, Options : OptionLists]

\* catalogs in the order GetQuestions reads them: by file name, that is by ID
GenericCatalogs ==
    {[i \in 1..Len(shapes) |->
        Question(QuestionIDs[i], shapes[i].Category, shapes[i].Weight,
                 shapes[i].Options)] :
        shapes \in SeqsUpTo(QuestionShapes, Len(QuestionIDs))}

\* one question of weight 5 whose only option is worth 10 points
ScenarioACatalog ==
    <<Question("q1", "Configuration", 5, <<Option("a1", 10)>>)>>

\* an Architecture question answerable at ratios 1, 0.5 and 0.4 and a
\* Persistence question answerable at ratios 1, 0.6 and 0.55; the overall
\* ratio is 0.5 for the answers (a3, a3) and 0.7 for (a1, a3)
ScenarioCCatalog ==
    <<Question("q1", "Architecture", 1,
        <<Option("a1", 10), Option("a2", 5), Option("a3", 4)>>),
      Question("q2", "Persistence", 1,
        <<Option("a1", 20), Option("a2", 12), Option("a3", 11)>>)>>

Catalogs == GenericCatalogs \cup {ScenarioACatalog, ScenarioCCatalog}

OptionIDsOf(question) == {question.Options[j].ID : j \in 1..Len(question.Options)}

QuestionIDsOf(questions) == {questions[i].ID : i \in 1..Len(questions)}

\* the question of the catalog with the given identifier
QuestionByID(questions, id) ==
    questions[CHOOSE i \in 1..Len(questions) : questions[i].ID = id]

\* answer maps SaveAnswer can build over a catalog: every question is
\* unanswered or answered with one of its options
AnswerMaps(questions) ==
    LET ids == QuestionIDsOf(questions)
        choices(id) == OptionIDsOf(QuestionByID(questions, id))
    IN UNION {{f \in [D -> UNION {choices(id) : id \in D}] :
                  \A id \in D : f[id] \in choices(id)} : D \in SUBSET ids}

----------------------------------------------------------------------------
(* Storage (storage.FileStorage): one JSON file per record.  Each call     *)
(* reads or writes one file.                                               *)

\* the questions directory of the modelled server: two question files
ServiceCatalog ==
    <<Question("q1", "Architecture", 2, <<Option("a1", 1), Option("a2", 0)>>),
      Question("q2", "Persistence", 1, <<Option("a1", 1)>>)>>

\* identifiers requests may name; "q0" and "a0" name nothing in the catalog
RequestQuestionIDs == QuestionIDsOf(ServiceCatalog) \cup {StaleQuestionID}
RequestOptionIDs == {"a1", "a2", UnknownOptionID}

\* GetApplication finding an application under every identifier
GetApplicationAny(id) == id = id

\* reports whether applications/<id>.json exists
GetApplication(id) == id \in applications

GetQuestion(id) ==
    IF id \in QuestionIDsOf(catalog) THEN QuestionByID(catalog, id) ELSE NoRecord

\* a file that json.Unmarshal rejects: size bytes that are no record (an
\* empty file after O_TRUNC, or a short write over the tail of a longer one)
Damaged(size) == [damaged |-> TRUE, size |-> size]

Readable(file) == file # NoRecord /\ "damaged" \notin DOMAIN file

\* what GetAssessment and GetReport return for a file json.Unmarshal rejects
ReadError == [error |-> "failed to unmarshal"]

RECURSIVE sumValues(_)
\* the sum of the values of a function with a finite domain
sumValues(f) ==
    IF DOMAIN f = {} THEN 0
    ELSE LET k == CHOOSE k \in DOMAIN f : TRUE
         IN f[k] + sumValues([j \in DOMAIN f \ {k} |-> f[j]])

\* the bytes json.Marshal writes for a string without escaped characters
jsonString(s) == Len(s) + 2

RECURSIVE jsonInt(_)
\* the bytes json.Marshal writes for a non-negative int
jsonInt(n) == IF n < 10 THEN 1 ELSE 1 + jsonInt(n \div 10)

\* "name":value
jsonField(name, valueSize) == jsonString(name) + 1 + valueSize

\* brackets, the members and the commas between them; sizes is a function
\* from the members to their bytes
jsonList(sizes) ==
    LET n == Cardinality(DOMAIN sizes)
    IN 2 + sumValues(sizes) + (IF n = 0 THEN 0 ELSE n - 1)

\* the bytes of json.Marshal(assessment), without the createdAt field, which
\* time.RFC3339 gives the same width in every write of a file
assessmentSize(assessment) ==
    jsonList(
        <<jsonField("id", jsonString(assessment.ID)),
          jsonField("applicationId", jsonString(assessment.ApplicationID)),
          jsonField("answers",
              jsonList([k \in DOMAIN assessment.Answers |->
                          jsonField(k, jsonString(assessment.Answers[k]))])),
          jsonField("status", jsonString(assessment.Status))>>)

\* the bytes of json.Marshal(report), without the generatedAt field
reportSize(report) ==
    jsonList(
        <<jsonField("assessmentId", jsonString(report.AssessmentID)),
          jsonField("applicationId", jsonString(report.ApplicationID)),
          jsonField("totalScore", jsonInt(report.TotalScore)),
          jsonField("maxPossibleScore", jsonInt(report.MaxPossibleScore)),
          jsonField("categoryScores",
              jsonList([k \in DOMAIN report.CategoryScores |->
                          jsonField(k, jsonInt(report.CategoryScores[k]))])),
          jsonField("recommendations",
              jsonList([i \in DOMAIN report.Recommendations |->
                  jsonList(
                    <<jsonField("category",
                          jsonString(report.Recommendations[i].Category)),
                      jsonField("description",
                          jsonString(report.Recommendations[i].Description)),
                      jsonField("priority",
                          jsonString(report.Recommendations[i].Priority))>>)])),
          jsonField("risks",
              jsonList([i \in DOMAIN report.Risks |->
                  jsonList(
                    <<jsonField("category", jsonString(report.Risks[i].Category)),
                      jsonField("description",
                          jsonString(report.Risks[i].Description)),
                      jsonField("severity",
                          jsonString(report.Risks[i].Severity))>>)])),
          jsonField("modernizationPlan",
              jsonList([i \in DOMAIN report.ModernizationPlan |->
                  jsonList(
                    <<jsonField("order",
                          jsonInt(report.ModernizationPlan[i].Order)),
                      jsonField("description",
                          jsonString(report.ModernizationPlan[i].Description)),
                      jsonField("effort",
                          jsonString(report.ModernizationPlan[i].Effort))>>)]))>>)

\* the bytes in a file; recordSize gives the bytes of the record it holds
assessmentFileSize(file) ==
    IF file = NoRecord THEN 0
    ELSE IF Readable(file) THEN assessmentSize(file) ELSE file.size

reportFileSize(file) ==
    IF file = NoRecord THEN 0
    ELSE IF Readable(file) THEN reportSize(file) ELSE file.size

\* os.WriteFile after its open: size bytes written at offset 0 of a file that
\* holds fileSize bytes. The file is empty unless another writer wrote since
\* this writer's O_TRUNC; bytes beyond the written ones stay in the file
writeAtStart(fileSize, record, size) ==
    IF size >= fileSize THEN record ELSE Damaged(fileSize)

\* GetAssessment: nil for a missing file, an error for a file that does not
\* parse, else the record
GetAssessment(id) ==
    IF assessments[id] = NoRecord \/ Readable(assessments[id])
    THEN assessments[id]
    ELSE ReadError

\* the uuid of a new assessment is known to no other request before
\* StartAssessment returns it, so no request reads the file while it is written
CreateAssessment(assessment) ==
    assessments' = [assessments EXCEPT ![assessment.ID] = assessment]

\* UpdateAssessment fails when the file does not exist
UpdateAssessmentFails(assessment) == assessments[assessment.ID] = NoRecord

\* UpdateAssessment up to the open of os.WriteFile, which truncates the file
UpdateAssessmentOpen(assessment) ==
    assessments' = [assessments EXCEPT ![assessment.ID] = Damaged(0)]

\* the write of os.WriteFile in UpdateAssessment
UpdateAssessmentWrite(assessment) ==
    assessments' = [assessments EXCEPT ![assessment.ID] =
                       writeAtStart(assessmentFileSize(@), assessment,
                                    assessmentSize(assessment))]

\* SaveReportOpen opening the file without truncating it
SaveReportOpenKeep(assessmentID) ==
    reports' = [reports EXCEPT ![assessmentID] = @]

\* SaveReport up to the open of os.WriteFile on reports/<AssessmentID>.json,
\* which creates the file or truncates it
SaveReportOpen(assessmentID) ==
    reports' = [reports EXCEPT ![assessmentID] = Damaged(0)]

\* the write of os.WriteFile in SaveReport
SaveReportWrite(report) ==
    reports' = [reports EXCEPT ![report.AssessmentID] =
                   writeAtStart(reportFileSize(@), report, reportSize(report))]

----------------------------------------------------------------------------
(* Request handling (api.Handler and services.AssessmentService): every    *)
(* goroutine handles one request at a time, one file operation per step    *)

Idle ==
    [op |-> "idle", pc |-> "idle", applicationID |-> "", assessmentID |-> "",
     questionID |-> "", optionID |-> "", assessment |-> NoRecord,
     response |-> NoRecord]

Success(payload) == [status |-> "success", error |-> "", report |-> payload]

Failure(message) == [status |-> "error", error |-> message, report |-> NoRecord]

Done(request, response) == [request EXCEPT !.pc = "done", !.response = response]

Accept(p) ==
    /\ requests[p].pc = "idle"
    /\ calls < MaxCalls
    /\ calls' = calls + 1

\* setAnswer replacing the answer map by one holding only the new answer
setAnswerFresh(assessment, questionID, optionID) ==
    [assessment EXCEPT !.Answers = (questionID :> optionID)]

\* setAnswer reopening the assessment it changes
setAnswerReopen(assessment, questionID, optionID) ==
    [assessment EXCEPT !.Answers = (questionID :> optionID) @@ @,
                       !.Status = "in_progress"]

\* assessment.Answers[questionID] = optionID on the handler's copy
setAnswer(assessment, questionID, optionID) ==
    [assessment EXCEPT !.Answers = (questionID :> optionID) @@ @]

\* optionValid accepting any identifier for a question that has options
optionValidNonEmpty(question, optionID) ==
    optionID = optionID /\ Len(question.Options) > 0

\* the option loop of SaveAnswer
optionValid(question, optionID) ==
    \E j \in 1..Len(question.Options) : question.Options[j].ID = optionID

\* StartAssessment: GetApplication, then CreateAssessment under a fresh uuid
StartAssessment(p, applicationID) ==
    /\ Accept(p)
    /\ IF ~GetApplication(applicationID)
       THEN /\ requests' = [requests EXCEPT ![p] =
                   Done([Idle EXCEPT !.op = "StartAssessment",
                                     !.applicationID = applicationID],
                        Failure("application not found"))]
            /\ UNCHANGED assessments
       ELSE \E id \in AssessmentIDs, now \in Times :
               /\ assessments[id] = NoRecord
               /\ LET assessment ==
                          Assessment(id, applicationID, now, EmptyMap, "in_progress")
                  IN /\ CreateAssessment(assessment)
                     /\ requests' = [requests EXCEPT ![p] =
                            Done([Idle EXCEPT !.op = "StartAssessment",
                                              !.applicationID = applicationID,
                                              !.assessmentID = id,
                                              !.assessment = assessment],
                                 Success(NoRecord))]
    /\ UNCHANGED <<catalog, applications, reports, scoreVars>>

\* SaveAnswer up to its write: GetAssessment, GetQuestion, the option check
\* and the change of the handler's copy of the record
SaveAnswerGet(p, assessmentID, questionID, optionID) ==
    /\ Accept(p)
    /\ LET request == [Idle EXCEPT !.op = "SaveAnswer",
                                   !.assessmentID = assessmentID,
                                   !.questionID = questionID,
                                   !.optionID = optionID]
           assessment == GetAssessment(assessmentID)
           question == GetQuestion(questionID)
       IN requests' = [requests EXCEPT ![p] =
            IF assessment = ReadError
            THEN Done(request, Failure("failed to get assessment"))
            ELSE IF assessment = NoRecord
            THEN Done(request, Failure("assessment not found"))
            ELSE IF question = NoRecord
            THEN Done(request, Failure("question not found"))
            ELSE IF ~optionValid(question, optionID)
            THEN Done(request, Failure("option not found for question"))
            ELSE [request EXCEPT
                    !.pc = "SaveAnswerUpdate",
                    !.assessment = setAnswer(assessment, questionID, optionID)]]
    /\ UNCHANGED <<storageVars, scoreVars>>

\* SaveAnswer's UpdateAssessment up to the open of the file
SaveAnswerUpdate(p) ==
    /\ requests[p].pc = "SaveAnswerUpdate"
    /\ IF UpdateAssessmentFails(requests[p].assessment)
       THEN /\ requests' = [requests EXCEPT ![p] =
                   Done(@, Failure("failed to update assessment"))]
            /\ UNCHANGED assessments
       ELSE /\ UpdateAssessmentOpen(requests[p].assessment)
            /\ requests' = [requests EXCEPT ![p].pc = "SaveAnswerWrite"]
    /\ UNCHANGED <<catalog, applications, reports, calls, scoreVars>>

\* SaveAnswer's UpdateAssessment writes the handler's copy and returns
SaveAnswerWrite(p) ==
    /\ requests[p].pc = "SaveAnswerWrite"
    /\ UpdateAssessmentWrite(requests[p].assessment)
    /\ requests' = [requests EXCEPT ![p] = Done(@, Success(NoRecord))]
    /\ UNCHANGED <<catalog, applications, reports, calls, scoreVars>>

\* CompleteAssessmentGet opening the assessment file for its write before it
\* fetches the questions
CompleteAssessmentGetMarkFirst(p, assessmentID) ==
    /\ Accept(p)
    /\ LET request == [Idle EXCEPT !.op = "CompleteAssessment",
                                   !.assessmentID = assessmentID]
           assessment == GetAssessment(assessmentID)
       IN \E readFails \in BOOLEAN :
            IF assessment = ReadError
            THEN /\ requests' = [requests EXCEPT ![p] =
                        Done(request, Failure("failed to get assessment"))]
                 /\ UNCHANGED assessments
            ELSE IF assessment = NoRecord
            THEN /\ requests' = [requests EXCEPT ![p] =
                        Done(request, Failure("assessment not found"))]
                 /\ UNCHANGED assessments
            ELSE /\ UpdateAssessmentOpen(assessment)
                 /\ requests' = [requests EXCEPT ![p] =
                        IF readFails
                        THEN Done(request, Failure("failed to get questions"))
                        ELSE [request EXCEPT
                                !.pc = "CompleteAssessmentWrite",
                                !.assessment =
                                    [assessment EXCEPT !.Status = "completed"]]]
    /\ UNCHANGED <<catalog, applications, reports, scoreVars>>

\* CompleteAssessment up to its first write: GetAssessment, then
\* GetQuestions, which fails when the questions directory cannot be read
CompleteAssessmentGet(p, assessmentID) ==
    /\ Accept(p)
    /\ LET request == [Idle EXCEPT !.op = "CompleteAssessment",
                                   !.assessmentID = assessmentID]
           assessment == GetAssessment(assessmentID)
       IN \E readFails \in BOOLEAN :
            requests' = [requests EXCEPT ![p] =
              IF assessment = ReadError
              THEN Done(request, Failure("failed to get assessment"))
              ELSE IF assessment = NoRecord
              THEN Done(request, Failure("assessment not found"))
              ELSE IF readFails
              THEN Done(request, Failure("failed to get questions"))
              ELSE [request EXCEPT !.pc = "CompleteAssessmentUpdate",
                                   !.assessment = assessment]]
    /\ UNCHANGED <<storageVars, scoreVars>>

\* CompleteAssessment marks its copy completed; UpdateAssessment up to the
\* open of the file
CompleteAssessmentUpdate(p) ==
    /\ requests[p].pc = "CompleteAssessmentUpdate"
    /\ LET assessment == [requests[p].assessment EXCEPT !.Status = "completed"]
       IN IF UpdateAssessmentFails(assessment)
          THEN /\ requests' = [requests EXCEPT ![p] =
                      Done(@, Failure("failed to update assessment"))]
               /\ UNCHANGED assessments
          ELSE /\ UpdateAssessmentOpen(assessment)
               /\ requests' = [requests EXCEPT ![p] =
                      [@ EXCEPT !.pc = "CompleteAssessmentWrite",
                                !.assessment = assessment]]
    /\ UNCHANGED <<catalog, applications, reports, calls, scoreVars>>

\* CompleteAssessment's UpdateAssessment writes the handler's copy
CompleteAssessmentWrite(p) ==
    /\ requests[p].pc = "CompleteAssessmentWrite"
    /\ UpdateAssessmentWrite(requests[p].assessment)
    /\ requests' = [requests EXCEPT ![p].pc = "CompleteAssessmentReport"]
    /\ UNCHANGED <<catalog, applications, reports, calls, scoreVars>>

\* CompleteAssessment's SaveReport up to the open of the report file
CompleteAssessmentReport(p) ==
    /\ requests[p].pc = "CompleteAssessmentReport"
    /\ SaveReportOpen(requests[p].assessmentID)
    /\ requests' = [requests EXCEPT ![p].pc = "CompleteAssessmentReportWrite"]
    /\ UNCHANGED <<catalog, applications, assessments, calls, scoreVars>>

\* CompleteAssessment's SaveReport writes the report and CompleteAssessment
\* returns it. The report is generateReport on the handler's copy and the
\* questions it fetched; it depends on nothing another request can change, so
\* its time and map order are drawn here
CompleteAssessmentReportWrite(p) ==
    /\ requests[p].pc = "CompleteAssessmentReportWrite"
    /\ \E now \in Times :
         \E order \in MapOrders(DOMAIN
                        categoryScoresOf(requests[p].assessment, catalog)) :
            LET report == generateReport(requests[p].assessment, catalog,
                                         now, order)
            IN /\ SaveReportWrite(report)
               /\ requests' = [requests EXCEPT ![p] = Done(@, Success(report))]
    /\ UNCHANGED <<catalog, applications, assessments, calls, scoreVars>>

\* the response is written and the goroutine takes the next request
Respond(p) ==
    /\ requests[p].pc = "done"
    /\ requests' = [requests EXCEPT ![p] = Idle]
    /\ UNCHANGED <<storageVars, calls, scoreVars>>

\* the scoring harness is not part of the server
ScoreIdle ==
    /\ argQuestions = <<>>
    /\ argAssessment = NoRecord
    /\ result = NoRecord
    /\ prevResult = NoRecord
    /\ lastOp = "idle"

\* a data directory holding a question catalog and the sample application,
\* no assessment and no report
Init ==
    /\ ScoreIdle
    /\ catalog = ServiceCatalog
    /\ applications = {"app1"}
    /\ assessments = [id \in AssessmentIDs |-> NoRecord]
    /\ reports = [id \in AssessmentIDs |-> NoRecord]
    /\ requests = [p \in Procs |-> Idle]
    /\ calls = 0

Next ==
    \E p \in Procs :
        \/ \E applicationID \in ApplicationIDs : StartAssessment(p, applicationID)
        \/ \E assessmentID \in AssessmentIDs, questionID \in RequestQuestionIDs,
              optionID \in RequestOptionIDs :
                SaveAnswerGet(p, assessmentID, questionID, optionID)
        \/ SaveAnswerUpdate(p)
        \/ SaveAnswerWrite(p)
        \/ \E assessmentID \in AssessmentIDs : CompleteAssessmentGet(p, assessmentID)
        \/ CompleteAssessmentUpdate(p)
        \/ CompleteAssessmentWrite(p)
        \/ CompleteAssessmentReport(p)
        \/ CompleteAssessmentReportWrite(p)
        \/ Respond(p)

Spec == Init /\ [][Next]_vars

\* no request is in flight in any goroutine but p
Alone(p) == \A r \in Procs \ {p} : requests[r].pc \in {"idle", "done"}

\* the server handling one request at a time
NextSeq ==
    \E p \in Procs :
        \/ Alone(p) /\ \E applicationID \in ApplicationIDs :
                          StartAssessment(p, applicationID)
        \/ Alone(p) /\ \E assessmentID \in AssessmentIDs,
                          questionID \in RequestQuestionIDs,
                          optionID \in RequestOptionIDs :
                            SaveAnswerGet(p, assessmentID, questionID, optionID)
        \/ Alone(p) /\ SaveAnswerUpdate(p)
        \/ Alone(p) /\ SaveAnswerWrite(p)
        \/ Alone(p) /\ \E assessmentID \in AssessmentIDs :
                          CompleteAssessmentGet(p, assessmentID)
        \/ Alone(p) /\ CompleteAssessmentUpdate(p)
        \/ Alone(p) /\ CompleteAssessmentWrite(p)
        \/ Alone(p) /\ CompleteAssessmentReport(p)
        \/ Alone(p) /\ CompleteAssessmentReportWrite(p)
        \/ Alone(p) /\ Respond(p)

SpecSeq == Init /\ [][NextSeq]_vars

----------------------------------------------------------------------------
(* Scoring harness: generateReport applied to drawn inputs, then to the    *)
(* same inputs with the catalog reordered, an unknown reference added to   *)
(* the answers or the points of a selected option raised                   *)

InitScore ==
    /\ argQuestions \in Catalogs
    /\ \E answers \in AnswerMaps(argQuestions) :
          argAssessment = Assessment("a1", "app1", 0, answers, "in_progress")
    /\ result = NoRecord
    /\ prevResult = NoRecord
    /\ lastOp = "init"
    /\ catalog = <<>>
    /\ applications = {}
    /\ assessments = [id \in AssessmentIDs |-> NoRecord]
    /\ reports = [id \in AssessmentIDs |-> NoRecord]
    /\ requests = [p \in Procs |-> Idle]
    /\ calls = 0

\* the reports generateReport can return for the given arguments
Reports(assessment, questions) ==
    {generateReport(assessment, questions, assessment.CreatedAt, order) :
        order \in MapOrders(DOMAIN categoryScoresOf(assessment, questions))}

Generate ==
    /\ lastOp = "init"
    /\ result' \in Reports(argAssessment, argQuestions)
    /\ lastOp' = "generate"
    /\ UNCHANGED <<argQuestions, argAssessment, prevResult, serviceVars>>

Regenerate(assessment, questions, op) ==
    /\ lastOp = "generate"
    /\ argAssessment' = assessment
    /\ argQuestions' = questions
    /\ prevResult' = result
    /\ result' \in Reports(assessment, questions)
    /\ lastOp' = op
    /\ UNCHANGED serviceVars

\* the same questions in another order
Reorder ==
    \E perm \in MapOrders(1..Len(argQuestions)) :
        /\ perm # [i \in 1..Len(argQuestions) |-> i]
        /\ Regenerate(argAssessment,
                      [i \in 1..Len(argQuestions) |-> argQuestions[perm[i]]],
                      "reorder")

\* the answer for id names no question of the catalog, or no option of its question
UnknownReference(questions, answers, id) ==
    /\ id \in DOMAIN answers
    /\ \A i \in 1..Len(questions) :
          questions[i].ID = id => answers[id] \notin OptionIDsOf(questions[i])

\* an answer is added that names an option its question does not have, or a
\* question the catalog does not contain
AddUnknown ==
    \E id \in (QuestionIDsOf(argQuestions) \cup {StaleQuestionID})
                \ DOMAIN argAssessment.Answers :
      \E optionID \in {UnknownOptionID, OptionIDs[1]} :
        LET answers == (id :> optionID) @@ argAssessment.Answers
        IN /\ UnknownReference(argQuestions, answers, id)
           /\ Regenerate([argAssessment EXCEPT !.Answers = answers],
                         argQuestions, "unknown")

\* option j of question i is the option the answer to question i selects
Selected(questions, answers, i, j) ==
    /\ questions[i].ID \in DOMAIN answers
    /\ questions[i].Options[j].ID = answers[questions[i].ID]

RaisePoints ==
    \E i \in 1..Len(argQuestions) :
      \E j \in 1..Len(argQuestions[i].Options) :
        \E d \in 1..MaxRaise :
            /\ Selected(argQuestions, argAssessment.Answers, i, j)
            /\ Regenerate(argAssessment,
                          [argQuestions EXCEPT ![i].Options[j].Points = @ + d],
                          "raise")

NextScore == Generate \/ Reorder \/ AddUnknown \/ RaisePoints

SpecScore == InitScore /\ [][NextScore]_vars

----------------------------------------------------------------------------
(* Properties of the generated report *)

HasRecommendation(report, category, priority) ==
    \E i \in 1..Len(report.Recommendations) :
        /\ report.Recommendations[i].Category = category
        /\ report.Recommendations[i].Priority = priority

CountRecommendations(report, category) ==
    Cardinality({i \in 1..Len(report.Recommendations) :
                    report.Recommendations[i].Category = category})

HasRisk(report, category, severity) ==
    \E i \in 1..Len(report.Risks) :
        /\ report.Risks[i].Category = category
        /\ report.Risks[i].Severity = severity

CountRisks(report, category) ==
    Cardinality({i \in 1..Len(report.Risks) : report.Risks[i].Category = category})

\* the largest point value among a question's options, 0 when it has none
Ceiling(question) ==
    LET points == {question.Options[j].Points : j \in 1..Len(question.Options)} \cup {0}
    IN CHOOSE m \in points : \A x \in points : x <= m

RECURSIVE SumOver(_, _)
SumOver(f, S) ==
    IF S = {} THEN 0
    ELSE LET x == CHOOSE y \in S : TRUE IN f[x] + SumOver(f, S \ {x})

\* sum over the questions of weight times the maximum option points
CatalogCeiling(qs) ==
    SumOver([i \in 1..Len(qs) |-> qs[i].Weight * Ceiling(qs[i])], 1..Len(qs))

Generated == result # NoRecord

\* C1: whenever maxPossible is 0, the report's General recommendation has
\* priority High and the Deployment/High risk is present (the < 0.5 tier).
C1_ZeroMaxLowestTier ==
    (Generated /\ result.MaxPossibleScore = 0) =>
        /\ HasRecommendation(result, "General", "High")
        /\ CountRecommendations(result, "General") = 1
        /\ HasRisk(result, "Deployment", "High")

\* C2: 0 <= TotalScore <= MaxPossibleScore; MaxPossibleScore is the sum over
\* the questions of weight times the maximum option points, so it is the same
\* for any two answer maps scored against the same catalog.
C2_Ceiling ==
    Generated =>
        /\ 0 <= result.TotalScore
        /\ result.TotalScore <= result.MaxPossibleScore
        /\ result.MaxPossibleScore = CatalogCeiling(argQuestions)
        /\ lastOp = "unknown" => result.MaxPossibleScore = prevResult.MaxPossibleScore

\* a report of a catalog with an unanswered question, scored strictly between
\* 0 and the maximum, and a second answer map scored against the same catalog
C2_Witness ==
    /\ lastOp = "unknown"
    /\ 0 < result.TotalScore
    /\ result.TotalScore < result.MaxPossibleScore
    /\ DOMAIN prevResult.CategoryScores # {}
    /\ \E i \in 1..Len(argQuestions) :
          /\ argQuestions[i].ID \notin DOMAIN argAssessment.Answers
          /\ Ceiling(argQuestions[i]) > 0

\* C3: with maxPossible > 0 there is exactly one General recommendation; its
\* priority is High below ratio 0.5, Medium in [0.5, 0.7) and Low from 0.7 on;
\* the Deployment/High risk is present exactly below ratio 0.5.
C3_OverallTier ==
    (Generated /\ result.MaxPossibleScore > 0) =>
        LET t == result.TotalScore
            m == result.MaxPossibleScore
        IN /\ CountRecommendations(result, "General") = 1
           /\ HasRecommendation(result, "General", "High") <=> 2 * t < m
           /\ HasRecommendation(result, "General", "Medium")
                 <=> (2 * t >= m /\ 10 * t < 7 * m)
           /\ HasRecommendation(result, "General", "Low") <=> 10 * t >= 7 * m
           /\ HasRisk(result, "Deployment", "High") <=> 2 * t < m
           /\ CountRisks(result, "Deployment") <= 1

\* a report at ratio exactly 0.5, after reports at ratio exactly 0.7 exist too
C3_Witness ==
    /\ Generated
    /\ result.MaxPossibleScore > 0
    /\ 2 * result.TotalScore = result.MaxPossibleScore
    /\ HasRecommendation(result, "General", "Medium")
    /\ ~HasRisk(result, "Deployment", "High")

\* C4: with maxScore > 0 the step at position i has Order i; the plan has 8
\* steps below ratio 0.5, 7 in [0.5, 0.7) and 5 from 0.7 on; the first step is
\* the Low-effort dependency analysis and the last four are the fixed
\* Medium-effort steps.
C4_PlanOrder ==
    (Generated /\ result.MaxPossibleScore > 0) =>
        LET t == result.TotalScore
            m == result.MaxPossibleScore
            plan == result.ModernizationPlan
            n == Len(plan)
        IN /\ \A i \in 1..n : plan[i].Order = i
           /\ n = IF 2 * t < m THEN 8 ELSE IF 10 * t < 7 * m THEN 7 ELSE 5
           /\ plan[1].Effort = "Low"
           /\ plan[1].Description =
                 "Analyze application dependencies and external integrations"
           /\ \A i \in n - 3 .. n : plan[i].Effort = "Medium"
           /\ plan[n - 3].Description = "Containerize application components"
           /\ plan[n - 2].Description = "Create Kubernetes deployment manifests"
           /\ plan[n - 1].Description =
                 "Set up CI/CD pipeline for Kubernetes deployment"
           /\ plan[n].Description = "Implement monitoring and observability"

\* a plan of the middle tier: seven steps, the trailing block numbered 4..7
C4_Witness ==
    /\ Generated
    /\ result.MaxPossibleScore > 0
    /\ Len(result.ModernizationPlan) = 7
    /\ result.ModernizationPlan[7].Order = 7
    /\ result.ModernizationPlan[4].Description = "Containerize application components"

\* the category's score is below n/d of its non-zero maximum
CategoryBelow(category, n, d) ==
    LET scores == result.CategoryScores
        maxima == categoryMaxScoresOf(argAssessment, argQuestions)
    IN /\ category \in DOMAIN scores
       /\ category \in DOMAIN maxima
       /\ maxima[category] # 0
       /\ d * scores[category] < n * maxima[category]

\* C5: the Architecture High recommendation and risk are in the report exactly
\* when Architecture is a scored category with ratio < 0.5, the Persistence
\* Medium recommendation and risk exactly when Persistence is a scored
\* category with ratio < 0.6, and no other category adds a recommendation or
\* a risk.
C5_CategoryRules ==
    Generated =>
        /\ HasRecommendation(result, "Architecture", "High")
              <=> CategoryBelow("Architecture", 1, 2)
        /\ HasRisk(result, "Architecture", "High")
              <=> CategoryBelow("Architecture", 1, 2)
        /\ HasRecommendation(result, "Persistence", "Medium")
              <=> CategoryBelow("Persistence", 3, 5)
        /\ HasRisk(result, "Persistence", "Medium")
              <=> CategoryBelow("Persistence", 3, 5)
        /\ \A i \in 1..Len(result.Recommendations) :
              LET r == result.Recommendations[i]
              IN \/ r.Category = "General"
                 \/ r.Category = "Architecture" /\ r.Priority = "High"
                 \/ r.Category = "Persistence" /\ r.Priority = "Medium"
        /\ \A i \in 1..Len(result.Risks) :
              LET r == result.Risks[i]
              IN \/ r.Category = "Deployment" /\ r.Severity = "High"
                 \/ r.Category = "Architecture" /\ r.Severity = "High"
                 \/ r.Category = "Persistence" /\ r.Severity = "Medium"
        /\ CountRecommendations(result, "Architecture") <= 1
        /\ CountRecommendations(result, "Persistence") <= 1
        /\ CountRisks(result, "Architecture") <= 1
        /\ CountRisks(result, "Persistence") <= 1

\* Architecture at ratio 0.4 and Persistence at ratio 0.55: both pairs appear
\* alongside the General recommendation
C5_Witness ==
    /\ Generated
    /\ {"Architecture", "Persistence"} \subseteq DOMAIN result.CategoryScores
    /\ LET maxima == categoryMaxScoresOf(argAssessment, argQuestions)
       IN /\ 10 * result.CategoryScores["Architecture"] = 4 * maxima["Architecture"]
          /\ 100 * result.CategoryScores["Persistence"] = 55 * maxima["Persistence"]
          /\ maxima["Architecture"] > 0
          /\ maxima["Persistence"] > 0
    /\ Len(result.Recommendations) = 3
    /\ Len(result.Risks) = 2
    /\ CountRecommendations(result, "General") = 1

SameScores(r1, r2) ==
    /\ r1.TotalScore = r2.TotalScore
    /\ r1.MaxPossibleScore = r2.MaxPossibleScore
    /\ r1.CategoryScores = r2.CategoryScores

\* C6: an answer naming an option its question does not have, or a question
\* the catalog does not contain, leaves TotalScore, MaxPossibleScore and
\* CategoryScores equal to those of the answer map without that entry.
C6_UnknownIgnored ==
    lastOp = "unknown" => SameScores(result, prevResult)

\* an unknown option for a question of a category that has no score, next to
\* a scored answer
C6_Witness ==
    /\ lastOp = "unknown"
    /\ result.TotalScore > 0
    /\ \E i \in 1..Len(argQuestions) :
          /\ UnknownReference(argQuestions, argAssessment.Answers, argQuestions[i].ID)
          /\ argQuestions[i].Category \notin DOMAIN result.CategoryScores

\* C7: raising the points of an option an answer selects never decreases
\* TotalScore.
C7_Monotone ==
    lastOp = "raise" => result.TotalScore >= prevResult.TotalScore

\* the raise made the total strictly larger
C7_Witness ==
    /\ lastOp = "raise"
    /\ result.TotalScore > prevResult.TotalScore
    /\ prevResult.TotalScore > 0

\* C8: a permutation of the question sequence leaves TotalScore,
\* MaxPossibleScore and CategoryScores the same.
C8_OrderIndependent ==
    lastOp = "reorder" => SameScores(result, prevResult)

\* two answered questions of one category with different scores, reordered
C8_Witness ==
    /\ lastOp = "reorder"
    /\ Len(argQuestions) = 2
    /\ argQuestions[1].ID = QuestionIDs[2]
    /\ argQuestions[1].Category = argQuestions[2].Category
    /\ result.TotalScore > 0
    /\ result.TotalScore < result.MaxPossibleScore
    /\ DOMAIN argAssessment.Answers = {QuestionIDs[1], QuestionIDs[2]}

----------------------------------------------------------------------------
(* Properties of the stored records *)

Completed(store, id) == Readable(store[id]) /\ store[id].Status = "completed"

InProgress(store, id) == Readable(store[id]) /\ store[id].Status = "in_progress"

\* C9: no step takes the stored assessment from status "completed" to status
\* "in_progress", in every interleaving of requests.
C9_StatusOneWay ==
    [][\A id \in AssessmentIDs :
          Completed(assessments, id) => ~InProgress(assessments', id)]_vars

\* the steps in which SaveAnswer opens the assessment file for its write
SaveAnswerOpens(p) ==
    /\ requests[p].pc = "SaveAnswerUpdate"
    /\ requests'[p].pc = "SaveAnswerWrite"

\* the steps in which SaveAnswer writes and returns success
SaveAnswerSucceeds(p) ==
    /\ requests[p].pc = "SaveAnswerWrite"
    /\ requests'[p].pc = "done"
    /\ requests'[p].response.status = "success"

\* every assessment but a is stored as it was
OthersUnchanged(a) ==
    \A other \in AssessmentIDs \ {a} : assessments'[other] = assessments[other]

\* C10: a successful SaveAnswer(a, q, o) with no concurrent request sets the
\* stored answer of a for q to o and leaves every other answer of a, a's
\* status, application and creation time, every other assessment and every
\* report unchanged.
\* The record SaveAnswer is about to write over the stored one differs from
\* it in the answer for q only, and its write stores exactly that record.
C10_SaveAnswerFrame ==
    [][\A p \in Procs :
          LET a == requests[p].assessmentID
              q == requests[p].questionID
              o == requests[p].optionID
              copy == requests[p].assessment
          IN /\ SaveAnswerOpens(p) =>
                   /\ Readable(assessments[a])
                   /\ copy.Answers[q] = o
                   /\ DOMAIN copy.Answers = DOMAIN assessments[a].Answers \cup {q}
                   /\ \A k \in DOMAIN assessments[a].Answers \ {q} :
                         copy.Answers[k] = assessments[a].Answers[k]
                   /\ copy.Status = assessments[a].Status
                   /\ copy.ApplicationID = assessments[a].ApplicationID
                   /\ copy.CreatedAt = assessments[a].CreatedAt
                   /\ copy.ID = assessments[a].ID
                   /\ OthersUnchanged(a)
                   /\ reports' = reports
             /\ ( /\ requests[p].pc = "SaveAnswerWrite"
                  /\ requests'[p] # requests[p] ) =>
                   /\ SaveAnswerSucceeds(p)
                   /\ assessments'[a] = copy
                   /\ OthersUnchanged(a)
                   /\ reports' = reports]_vars

\* SaveAnswer has returned success on an assessment that keeps an earlier
\* answer to another question, while a second assessment exists
C10_Witness ==
    \E p \in Procs :
        /\ requests[p].op = "SaveAnswer"
        /\ requests[p].pc = "done"
        /\ requests[p].response.status = "success"
        /\ LET a == requests[p].assessmentID
           IN /\ Readable(assessments[a])
              /\ assessments[a].Answers[requests[p].questionID] = requests[p].optionID
              /\ Cardinality(DOMAIN assessments[a].Answers) = 2
              /\ \E other \in AssessmentIDs \ {a} : assessments[other] # NoRecord

\* the step in which goroutine p takes a request for the named operation
Accepts(p, op) == requests[p].pc = "idle" /\ requests'[p].op = op

\* the scores generateReport computes from the stored answers of assessment id
storedScores(id) ==
    calculateScores(catalog, assessments[id].Answers, 1, initialScores)

\* the steps in which CompleteAssessment opens the report file for its write
CompleteAssessmentOpensReport(p) ==
    /\ requests[p].pc = "CompleteAssessmentReport"
    /\ requests'[p].pc = "CompleteAssessmentReportWrite"

\* the steps in which CompleteAssessment writes its report and returns
CompleteAssessmentReturns(p) ==
    /\ requests[p].pc = "CompleteAssessmentReportWrite"
    /\ requests'[p].pc = "done"

\* C11: with one request in flight at a time, a successful CompleteAssessment(a)
\* leaves under a exactly the report it returns, that report is the one
\* generateReport computes from the answers stored for a at that time, whatever
\* report was stored under a before is replaced, and the report stored under
\* every other identifier is unchanged.
C11_ReportUpsert ==
    [][\A p \in Procs :
          /\ CompleteAssessmentOpensReport(p) =>
                \A other \in AssessmentIDs \ {requests[p].assessmentID} :
                    reports'[other] = reports[other]
          /\ CompleteAssessmentReturns(p) =>
              LET a == requests[p].assessmentID
                  returned == requests'[p].response.report
              IN /\ requests'[p].response.status = "success"
                 /\ Readable(assessments[a])
                 /\ returned.AssessmentID = a
                 /\ reports'[a] = returned
                 /\ \E now \in Times :
                      \E order \in MapOrders(DOMAIN storedScores(a).categoryScores) :
                         returned = generateReport(assessments[a], catalog,
                                                   now, order)
                 /\ returned.TotalScore = storedScores(a).totalScore
                 /\ returned.MaxPossibleScore = storedScores(a).maxScore
                 /\ \A other \in AssessmentIDs \ {a} :
                       reports'[other] = reports[other]]_vars

\* CompleteAssessment has returned the report of an assessment with a scoring
\* answer, and that report is the stored one, while another assessment is
\* stored without a report
C11_Witness ==
    \E p \in Procs :
        /\ requests[p].op = "CompleteAssessment"
        /\ requests[p].pc = "done"
        /\ requests[p].response.status = "success"
        /\ LET a == requests[p].assessmentID
           IN /\ reports[a] = requests[p].response.report
              /\ reports[a].TotalScore > 0
              /\ \E other \in AssessmentIDs \ {a} :
                    /\ assessments[other] # NoRecord
                    /\ reports[other] = NoRecord

\* C12: CompleteAssessment on an identifier without a stored assessment returns
\* "assessment not found", and a failure to fetch the questions returns that
\* storage error; whenever CompleteAssessment returns without having written,
\* it returns one of these two errors and every stored assessment and report
\* is as it was (no report stored, no assessment created, no status changed).
C12_CompleteErrors ==
    [][\A p \in Procs :
          Accepts(p, "CompleteAssessment") =>
              LET a == requests'[p].assessmentID
                  response == requests'[p].response
              IN /\ assessments[a] = NoRecord =>
                       /\ requests'[p].pc = "done"
                       /\ response.status = "error"
                       /\ response.error = "assessment not found"
                 /\ requests'[p].pc = "done" =>
                       /\ response.status = "error"
                       /\ response.error \in {"assessment not found",
                                              "failed to get assessment",
                                              "failed to get questions"}
                       /\ response.error = "assessment not found" <=>
                             assessments[a] = NoRecord
                       /\ assessments' = assessments
                       /\ reports' = reports
                 /\ requests'[p].pc # "done" =>
                       /\ assessments' = assessments
                       /\ reports' = reports]_vars

\* CompleteAssessment has failed to fetch the questions for an assessment that
\* has an answer: the assessment is still in progress and has no report
C12_Witness ==
    \E p \in Procs :
        /\ requests[p].op = "CompleteAssessment"
        /\ requests[p].pc = "done"
        /\ requests[p].response.error = "failed to get questions"
        /\ LET a == requests[p].assessmentID
           IN /\ InProgress(assessments, a)
              /\ DOMAIN assessments[a].Answers # {}
              /\ reports[a] = NoRecord

\* C13: StartAssessment for a stored application stores, under an identifier
\* that held no assessment, an assessment with status "in_progress", no answers
\* and that ApplicationID, and changes no other assessment and no report;
\* for an application that is not stored it returns an error and the stored
\* assessments and reports are as they were.
C13_StartAssessment ==
    [][\A p \in Procs :
          Accepts(p, "StartAssessment") =>
              LET app == requests'[p].applicationID
                  id == requests'[p].assessmentID
                  response == requests'[p].response
              IN /\ requests'[p].pc = "done"
                 /\ reports' = reports
                 /\ IF app \in applications
                    THEN /\ response.status = "success"
                         /\ id \in AssessmentIDs
                         /\ assessments[id] = NoRecord
                         /\ assessments'[id] # NoRecord
                         /\ assessments'[id].ID = id
                         /\ assessments'[id].Status = "in_progress"
                         /\ assessments'[id].Answers = EmptyMap
                         /\ assessments'[id].ApplicationID = app
                         /\ \A other \in AssessmentIDs \ {id} :
                               assessments'[other] = assessments[other]
                    ELSE /\ response.status = "error"
                         /\ assessments' = assessments]_vars

\* StartAssessment has stored a new assessment while an earlier assessment
\* with an answer and a report is stored
C13_Witness ==
    \E p \in Procs :
        /\ requests[p].op = "StartAssessment"
        /\ requests[p].pc = "done"
        /\ requests[p].response.status = "success"
        /\ LET id == requests[p].assessmentID
           IN /\ InProgress(assessments, id)
              /\ assessments[id].Answers = EmptyMap
              /\ \E other \in AssessmentIDs \ {id} :
                    /\ Readable(assessments[other])
                    /\ DOMAIN assessments[other].Answers # {}
                    /\ Readable(reports[other])

\* the catalog has a question questionID with an option optionID
ValidAnswer(questionID, optionID) ==
    \E i \in 1..Len(catalog) :
        /\ catalog[i].ID = questionID
        /\ \E j \in 1..Len(catalog[i].Options) :
              catalog[i].Options[j].ID = optionID

\* C14: with one request in flight at a time, SaveAnswer with a valid
\* question and option on an assessment whose stored status is "completed" is
\* not rejected; its write succeeds, stores the answer, stores status
\* "completed" and leaves every report unchanged.
C14_SaveAnswerAfterCompletion ==
    [][\A p \in Procs :
          /\ ( /\ Accepts(p, "SaveAnswer")
               /\ Completed(assessments, requests'[p].assessmentID)
               /\ ValidAnswer(requests'[p].questionID, requests'[p].optionID) )
             => /\ requests'[p].pc = "SaveAnswerUpdate"
                /\ requests'[p].assessment.Status = "completed"
                /\ reports' = reports
                /\ assessments' = assessments
          /\ ( /\ requests[p].pc \in {"SaveAnswerUpdate", "SaveAnswerWrite"}
               /\ requests'[p] # requests[p]
               /\ requests[p].assessment.Status = "completed" )
             => /\ SaveAnswerOpens(p) \/ SaveAnswerSucceeds(p)
                /\ reports' = reports
          /\ ( /\ SaveAnswerSucceeds(p)
               /\ requests[p].assessment.Status = "completed" )
             => LET a == requests[p].assessmentID
                IN /\ Completed(assessments', a)
                   /\ assessments'[a].Answers[requests[p].questionID] =
                         requests[p].optionID]_vars

\* SaveAnswer has returned success on a completed assessment: the status is
\* still "completed" and the stored report no longer has the score of the
\* stored answers
C14_Witness ==
    \E p \in Procs :
        /\ requests[p].op = "SaveAnswer"
        /\ requests[p].pc = "done"
        /\ requests[p].response.status = "success"
        /\ LET a == requests[p].assessmentID
           IN /\ Completed(assessments, a)
              /\ requests[p].questionID \in DOMAIN assessments[a].Answers
              /\ assessments[a].Answers[requests[p].questionID] =
                    requests[p].optionID
              /\ Readable(reports[a])
              /\ reports[a].TotalScore # storedScores(a).totalScore

\* C15: when two SaveAnswer requests on the same assessment for two different
\* questions have both returned success, the stored assessment has an answer
\* to both questions.
C15_BothAnswersStored ==
    \A p \in Procs : \A r \in Procs \ {p} :
        ( /\ requests[p].op = "SaveAnswer"
          /\ requests[r].op = "SaveAnswer"
          /\ requests[p].pc = "done"
          /\ requests[r].pc = "done"
          /\ requests[p].response.status = "success"
          /\ requests[r].response.status = "success"
          /\ requests[p].assessmentID = requests[r].assessmentID
          /\ requests[p].questionID # requests[r].questionID )
        => LET stored == assessments[requests[p].assessmentID]
           IN /\ Readable(stored)
              /\ requests[p].questionID \in DOMAIN stored.Answers
              /\ requests[r].questionID \in DOMAIN stored.Answers

\* C16: the record CompleteAssessment writes over the stored assessment has
\* the answer map that is stored when it opens the file for its write, in
\* every interleaving of requests: its write adds, removes and changes no
\* answer.
C16_CompleteKeepsAnswers ==
    [][\A p \in Procs :
          ( /\ requests[p].pc = "CompleteAssessmentUpdate"
            /\ requests'[p].pc = "CompleteAssessmentWrite"
            /\ Readable(assessments[requests[p].assessmentID]) )
          => requests'[p].assessment.Answers =
                assessments[requests[p].assessmentID].Answers]_vars

\* C17: SaveAnswer naming an assessment that is not stored, a question that is
\* not in the catalog, or an option that the question does not have returns
\* an error without a write: every stored assessment and report is as it was.
C17_SaveAnswerErrors ==
    [][\A p \in Procs :
          ( /\ Accepts(p, "SaveAnswer")
            /\ \/ assessments[requests'[p].assessmentID] = NoRecord
               \/ ~ValidAnswer(requests'[p].questionID, requests'[p].optionID) )
          => /\ requests'[p].pc = "done"
             /\ requests'[p].response.status = "error"
             /\ requests'[p].response.error \in
                   {"assessment not found", "failed to get assessment",
                    "question not found", "option not found for question"}
             /\ assessments' = assessments
             /\ reports' = reports]_vars

\* SaveAnswer has rejected an option that the question does not have, on a
\* completed assessment that has an answer and a report
C17_Witness ==
    \E p \in Procs :
        /\ requests[p].op = "SaveAnswer"
        /\ requests[p].pc = "done"
        /\ requests[p].response.error = "option not found for question"
        /\ LET a == requests[p].assessmentID
           IN /\ Completed(assessments, a)
              /\ DOMAIN assessments[a].Answers # {}
              /\ Readable(reports[a])

====
